---- MODULE Spec2Model ----
(***************************************************************************)
(* Model of the HCT knowledge search core (src/knowledge_search.py) and of  *)
(* the callers that drive it (src/server.py).                               *)
(*                                                                          *)
(* A Python str is a sequence of one-character strings, so that slicing,    *)
(* find, strip, lower and re.sub are computed and not assumed.              *)
(***************************************************************************)
EXTENDS Integers, Sequences, FiniteSets, TLC

VARIABLES
    nq,         \* normalize_query: the argument `query`
    nwords,     \* the number of words typed into nq
    npc,        \* "typing" / "typed" before the call of normalize_query, "done" after it
    normalized, \* normalize_query: the returned string (<<>> before the call)
    content,    \* get_snippet: the argument `content`
    squery,     \* get_snippet: the argument `query`
    slength,    \* get_snippet: the argument `snippet_length`
    spc,        \* "call" before the call of get_snippet, "done" after it, "idle" otherwise
    srun,       \* get_snippet: its locals at the return, and the returned string
    dir,        \* the index location on disk: "absent", "unreadable" (no index in it), "index"
    stored,     \* the entries of the index on disk, in document-number order (ids of Catalogue)
    ix,         \* KnowledgeSearch.ix: "None" or "Loaded"
    last,       \* the last call on the KnowledgeSearch object and what it returned
    built,      \* the documents of the latest create_index that succeeded on this location
    sessions,   \* server.sessions: session id -> list of messages
    reqs        \* the /chat/stream requests: where each is, its locals, what it sent

----------------------------------------------------------------------------
(* Python str primitives                                                    *)

UpperLetters ==
    <<"A","B","C","D","E","F","G","H","I","J","K","L","M",
      "N","O","P","Q","R","S","T","U","V","W","X","Y","Z">>

LowerLetters ==
    <<"a","b","c","d","e","f","g","h","i","j","k","l","m",
      "n","o","p","q","r","s","t","u","v","w","x","y","z">>

Digits == {"0","1","2","3","4","5","6","7","8","9"}

Range(f) == {f[i] : i \in DOMAIN f}

WhiteSpace == {" ", "\t", "\n"}

\* the regex class \w
WordChars == Range(UpperLetters) \cup Range(LowerLetters) \cup Digits \cup {"_"}

\* str.isspace for the characters of the model
IsSpace(c) == c \in WhiteSpace

IsWordChar(c) == c \in WordChars

LowerOf == [c \in Range(UpperLetters) |->
               LowerLetters[CHOOSE i \in DOMAIN UpperLetters : UpperLetters[i] = c]]

UpperOf == [c \in Range(LowerLetters) |->
               UpperLetters[CHOOSE i \in DOMAIN LowerLetters : LowerLetters[i] = c]]

LowerChar(c) == IF c \in DOMAIN LowerOf THEN LowerOf[c] ELSE c

\* str.lower()
Lower(s) == <<>> \o [i \in DOMAIN s |-> LowerChar(s[i])]

\* str.upper()
Upper(s) == <<>> \o [i \in DOMAIN s |-> IF s[i] \in DOMAIN UpperOf THEN UpperOf[s[i]] ELSE s[i]]

\* s[a:b] with 0-based, end-exclusive Python indices already clamped to 0..len(s)
Slice(s, a, b) == IF a >= b THEN <<>> ELSE SubSeq(s, a + 1, b)

\* s occurs in t at the 1-based position i
HasAt(t, i, s) ==
    /\ i >= 1
    /\ i + Len(s) - 1 <= Len(t)
    /\ \A k \in 1..Len(s) : t[i + k - 1] = s[k]

----------------------------------------------------------------------------
(* re.sub for the patterns of normalize_query:                              *)
(*   \b first \s* second \b      (second = <<>> : \b first \b)              *)

\* \b between the 1-based positions k and k+1 (k = 0: start, k = Len(s): end)
WordBoundary(s, k) ==
    LET before == k >= 1 /\ k <= Len(s) /\ IsWordChar(s[k])
        after  == k + 1 >= 1 /\ k + 1 <= Len(s) /\ IsWordChar(s[k + 1])
    IN  before # after

\* the first position >= j that holds no whitespace (greedy \s*), Len(s) + 1 if none
SkipSpace(s, j) ==
    IF \E k \in j..Len(s) : ~IsSpace(s[k])
    THEN CHOOSE k \in j..Len(s) : ~IsSpace(s[k]) /\ \A m \in j..(k - 1) : IsSpace(s[m])
    ELSE Len(s) + 1

\* 0 when the pattern does not match at i, else the position of the match's last character
MatchEnd(s, i, first, second) ==
    IF ~(HasAt(s, i, first) /\ WordBoundary(s, i - 1)) THEN 0
    ELSE LET j == IF second = <<>> THEN i + Len(first) ELSE SkipSpace(s, i + Len(first))
             e == j + Len(second) - 1
         IN  IF HasAt(s, j, second) /\ WordBoundary(s, e) THEN e ELSE 0

RECURSIVE NextMatch(_, _, _, _)
\* the leftmost position >= i where the pattern matches (Len(s) + 1: nowhere)
NextMatch(s, i, first, second) ==
    IF i > Len(s) THEN i
    ELSE IF s[i] = first[1] /\ MatchEnd(s, i, first, second) > 0 THEN i
    ELSE NextMatch(s, i + 1, first, second)

RECURSIVE ReSubFrom(_, _, _, _, _)
\* re.sub scanning from position i: leftmost matches, not overlapping, all replaced
ReSubFrom(s, i, first, second, repl) ==
    LET m == NextMatch(s, i, first, second)
    IN  IF m > Len(s) THEN SubSeq(s, i, Len(s))
        ELSE SubSeq(s, i, m - 1) \o repl
                 \o ReSubFrom(s, MatchEnd(s, m, first, second) + 1, first, second, repl)

ReSub(first, second, repl, s) == ReSubFrom(s, 1, first, second, repl)

\* a match of the pattern exists somewhere in s
ReSearch(first, second, s) == \E i \in 1..Len(s) : MatchEnd(s, i, first, second) > 0

----------------------------------------------------------------------------
(* KnowledgeSearch.normalize_query                                          *)

W_f        == <<"f">>
W_500      == <<"5","0","0">>
W_f500     == <<"f","5","0","0">>
W_f_500    == <<"f","-","5","0","0">>
W_hydro    == <<"h","y","d","r","o">>
W_lock     == <<"l","o","c","k">>
W_hydrolock == <<"h","y","d","r","o","l","o","c","k">>
W_pinnacle == <<"p","i","n","n","a","c","l","e">>
W_foam     == <<"f","o","a","m">>
W_dust     == <<"d","u","s","t">>
W_wash     == <<"w","a","s","h">>
W_dust_wash == <<"d","u","s","t","-","w","a","s","h">>

\* normalize_query with the pinnacle rule writing 'pinnaclefoam' (as the hydrolock rule does)
normalize_query_joined(query) ==
    LET n0 == Lower(query)
        n1 == ReSub(W_f, W_500, W_f_500, n0)
        n2 == ReSub(W_f500, <<>>, W_f_500, n1)
        n3 == ReSub(W_hydro, W_lock, W_hydrolock, n2)
        n4 == ReSub(W_pinnacle, W_foam, W_pinnacle \o W_foam, n3)
        n5 == ReSub(W_dust, W_wash, W_dust_wash, n4)
    IN  n5

\* normalize_query without the lower() of its first line
normalize_query_nolower(query) ==
    LET n1 == ReSub(W_f, W_500, W_f_500, query)
        n2 == ReSub(W_f500, <<>>, W_f_500, n1)
        n3 == ReSub(W_hydro, W_lock, W_hydrolock, n2)
        n4 == ReSub(W_pinnacle, W_foam, W_pinnacle, n3)
        n5 == ReSub(W_dust, W_wash, W_dust_wash, n4)
    IN  n5

normalize_query(query) ==
    LET n0 == Lower(query)
        n1 == ReSub(W_f, W_500, W_f_500, n0)
        n2 == ReSub(W_f500, <<>>, W_f_500, n1)
        n3 == ReSub(W_hydro, W_lock, W_hydrolock, n2)
        n4 == ReSub(W_pinnacle, W_foam, W_pinnacle, n3)
        n5 == ReSub(W_dust, W_wash, W_dust_wash, n4)
    IN  n5

-------------------------------------------------------------------------------------------------------------------------------------------------------------------------------------------------------------------------------------------------------------------------------------------------
(* KnowledgeSearch.get_snippet                                              *)

Min(a, b) == IF a <= b THEN a ELSE b
Max(a, b) == IF a >= b THEN a ELSE b

RECURSIVE SplitFrom(_, _)
\* str.split() from position i: the maximal runs of non-whitespace, in order
SplitFrom(s, i) ==
    LET a == SkipSpace(s, i)
    IN  IF a > Len(s) THEN <<>>
        ELSE LET RECURSIVE WordEnd(_)
                 WordEnd(j) == IF j < Len(s) /\ ~IsSpace(s[j + 1]) THEN WordEnd(j + 1) ELSE j
                 b == WordEnd(a)
             IN  <<SubSeq(s, a, b)>> \o SplitFrom(s, b + 1)

Split(s) == SplitFrom(s, 1)

\* the last position <= j that holds no whitespace, 0 if none
LastNonSpace(s, j) ==
    IF \E k \in 1..j : ~IsSpace(s[k])
    THEN CHOOSE k \in 1..j : ~IsSpace(s[k]) /\ \A m \in (k + 1)..j : IsSpace(s[m])
    ELSE 0

\* str.strip()
Strip(s) == SubSeq(s, SkipSpace(s, 1), LastNonSpace(s, Len(s)))

OccursAt(t, i, s) == t[i] = s[1] /\ HasAt(t, i, s)

\* t.find(s) for a non-empty s: the 0-based position of the first occurrence
\* of s in t, or -1
Find(t, s) ==
    LET lastStart == Len(t) - Len(s) + 1
    IN  IF \E i \in 1..lastStart : OccursAt(t, i, s)
        THEN (CHOOSE i \in 1..lastStart :
                 OccursAt(t, i, s) /\ \A j \in 1..(i - 1) : ~OccursAt(t, j, s)) - 1
        ELSE -1

SnippetLength == 300
Before == 100
Ellipsis == <<".", ".", ".">>

RECURSIVE EarliestFrom(_, _, _, _)
\* the loop of get_snippet over query_terms[k..], earliest_pos so far being `earliest`
EarliestFrom(content_lower, query_terms, k, earliest) ==
    IF k > Len(query_terms) THEN earliest
    ELSE LET pos == Find(content_lower, query_terms[k])
         IN  EarliestFrom(content_lower, query_terms, k + 1,
                          IF pos # -1 /\ pos < earliest THEN pos ELSE earliest)

RECURSIVE FirstFoundFrom(_, _, _, _)
\* the loop stopping at the first term that occurs
FirstFoundFrom(content_lower, query_terms, k, earliest) ==
    IF k > Len(query_terms) THEN earliest
    ELSE LET pos == Find(content_lower, query_terms[k])
         IN  IF pos # -1 THEN pos
             ELSE FirstFoundFrom(content_lower, query_terms, k + 1, earliest)

\* earliest_pos with a `break` after the first term found
EarliestPos_firstFound(c, query) ==
    FirstFoundFrom(Lower(c), Split(Lower(query)), 1, Len(c))

\* earliest_pos after the loop
EarliestPos(c, query) ==
    EarliestFrom(Lower(c), Split(Lower(query)), 1, Len(c))

\* the no-match return without .strip()
FallbackSnippet_nostrip(c, snippet_length) ==
    Slice(c, 0, Min(snippet_length, Len(c)))

\* content[:snippet_length].strip()
FallbackSnippet(c, snippet_length) ==
    Strip(Slice(c, 0, Min(snippet_length, Len(c))))

\* the window cut from content_lower
WindowText_lowered(c, start, end) == Strip(Slice(Lower(c), start, end))

\* content[start:end].strip()
WindowText(c, start, end) == Strip(Slice(c, start, end))

\* `if end <= len(content)`
TruncatedAfter_offByOne(c, end) == end <= Len(c)

\* `if end < len(content)`
TruncatedAfter(c, end) == end < Len(c)

\* get_snippet: the locals at the return (from/to: the bounds of the slice
\* taken; lead/trail: whether "..." was put before/after it), and the result
get_snippet_run(c, query, snippet_length) ==
    LET earliest_pos == EarliestPos(c, query)
    IN  IF earliest_pos = Len(c)
        THEN [matched |-> FALSE, earliest_pos |-> earliest_pos,
              from |-> 0, to |-> Min(snippet_length, Len(c)),
              lead |-> FALSE, trail |-> FALSE,
              result |-> FallbackSnippet(c, snippet_length)]
        ELSE LET start == Max(0, earliest_pos - Before)
                 end   == Min(Len(c), earliest_pos + snippet_length)
                 snippet == WindowText(c, start, end)
                 lead  == start > 0
                 trail == TruncatedAfter(c, end)
             IN  [matched |-> TRUE, earliest_pos |-> earliest_pos,
                  from |-> start, to |-> end,
                  lead |-> lead, trail |-> trail,
                  result |-> (IF lead THEN Ellipsis ELSE <<>>) \o snippet
                                \o (IF trail THEN Ellipsis ELSE <<>>)]

get_snippet(c, query, snippet_length) == get_snippet_run(c, query, snippet_length).result

-----
(* The queries given to normalize_query: the caller types up to MaxWords    *)
(* words of the product vocabulary, each after nothing or one space; a      *)
(* query shorter than MaxWords may then be put in capitals or have its gaps *)
(* doubled.                                                                 *)

MaxWords == 3

W_spray == <<"s","p","r","a","y">>

Vocabulary ==
    {W_f, W_500, W_f500, W_hydro, W_lock, W_pinnacle, W_foam, W_dust, W_wash, W_spray}

\* between two words: nothing, or one space
Separators == {<<>>, <<" ">>}

RECURSIVE DoubleSpaces(_)
DoubleSpaces(s) ==
    IF s = <<>> THEN <<>>
    ELSE (IF Head(s) = " " THEN <<" ", " ">> ELSE <<Head(s)>>) \o DoubleSpaces(Tail(s))

NormStart ==
    /\ nq = <<>>
    /\ nwords = 0
    /\ npc = "typing"
    /\ normalized = <<>>

TypeWord(sep, w) ==
    /\ npc = "typing"
    /\ nwords < MaxWords
    /\ nq' = (IF nq = <<>> THEN <<>> ELSE nq \o sep) \o w
    /\ nwords' = nwords + 1
    /\ UNCHANGED <<npc, normalized>>

Capitalise ==
    /\ npc = "typing"
    /\ nwords \in 1..(MaxWords - 1)
    /\ nq' = Upper(nq)
    /\ npc' = "typed"
    /\ UNCHANGED <<nwords, normalized>>

WidenGaps ==
    /\ npc = "typing"
    /\ nwords \in 2..(MaxWords - 1)
    /\ nq' = DoubleSpaces(nq)
    /\ npc' = "typed"
    /\ UNCHANGED <<nwords, normalized>>

\* one call normalize_query(nq)
NormalizeQuery ==
    /\ npc \in {"typing", "typed"}
    /\ normalized' = normalize_query(nq)
    /\ npc' = "done"
    /\ UNCHANGED <<nq, nwords>>

----------------------------------------------------------------------------
(* The arguments given to get_snippet: a content of filler around up to two *)
(* product mentions, placed so that the window meets or misses the start    *)
(* and the end of the content; a query of zero, one or two terms; the       *)
(* default window length or a short one.                                    *)

W_F_500   == <<"F","-","5","0","0">>
W_lithium == <<"l","i","t","h","i","u","m">>

Pad(ch, n) == <<>> \o [i \in 1..n |-> ch]

Fillers == {"x", " "}
Mentions == {<<>>, W_F_500, W_lithium}
LeadLengths == {0, 1, Before, Before + 1}
GapLengths == {0, 1}
TailLengths == {0, SnippetLength - Len(W_F_500), SnippetLength - Len(W_F_500) + 1}

Contents ==
    {Pad(f, a) \o m1 \o Pad(f, g) \o m2 \o Pad(f, z) :
        f \in Fillers, a \in LeadLengths, m1 \in Mentions,
        g \in GapLengths, m2 \in Mentions, z \in TailLengths}

SnippetQueries ==
    {<<>>, <<" ">>, W_f_500, W_lithium, W_foam,
     W_f_500 \o <<" ">> \o W_lithium,
     W_foam \o <<" ", " ">> \o W_lithium}

ShortWindow == 8

WindowLengths == {SnippetLength, ShortWindow}

NoRun ==
    [matched |-> FALSE, earliest_pos |-> 0, from |-> 0, to |-> 0,
     lead |-> FALSE, trail |-> FALSE, result |-> <<>>]

SnipStart ==
    /\ content \in Contents
    /\ squery \in SnippetQueries
    /\ slength \in WindowLengths
    /\ spc = "call"
    /\ srun = NoRun

\* one call get_snippet(content, squery, slength)
GetSnippet ==
    /\ spc = "call"
    /\ srun' = get_snippet_run(content, squery, slength)
    /\ spc' = "done"
    /\ UNCHANGED <<content, squery, slength>>

---------------------------------------------------------------------------------------------------------------------------------------------------
(* The Whoosh index behind KnowledgeSearch: schema, analysis, matching      *)

\* the sentence of the aviation document
W_sentence ==
    <<"l","i","t","h","i","u","m"," ","b","a","t","t","e","r","y"," ","f","i","r","e"," ","s","u","p","p","r","e","s","s","i","o","n"," ","u","s","i","n","g"," ","F","-","5","0","0">>

\* the document records the scanner hands to create_index; the fourth is a
\* longer revision of the first: a heading, a run of other text, the sentence
Catalogue ==
    << [filename |-> "B_F500_AM_Aviation.txt",
        category |-> <<"B">>, product |-> <<"F","5","0","0">>, subcategory |-> <<"A","M">>,
        topic |-> <<"A","v","i","a","t","i","o","n">>,
        content |-> W_sentence],
       [filename |-> "b_f500_faq.txt",
        category |-> <<"b">>, product |-> <<"f","5","0","0">>, subcategory |-> <<>>,
        topic |-> <<"f","a","q">>,
        content |-> <<"f","5","0","0"," ","v","a","p","o","r"," ","f","a","q">>],
       [filename |-> "B_HydroLock_TD_Vapor.txt",
        category |-> <<"B">>, product |-> <<"H","y","d","r","o","L","o","c","k">>, subcategory |-> <<"T","D">>,
        topic |-> <<"V","a","p","o","r">>,
        content |-> <<"H","y","d","r","o","L","o","c","k"," ","v","a","p","o","r"," ","m","i","t","i","g","a","t","i","o","n",","," ","u","n","l","i","k","e"," ","f","5","0","0">>],
       [filename |-> "B_F500_AM_Aviation.txt",
        category |-> <<"B">>, product |-> <<"F","5","0","0">>, subcategory |-> <<"A","M">>,
        topic |-> <<"A","v","i","a","t","i","o","n">>,
        content |-> <<"L","i","t","h","i","u","m"," ">> \o Pad("x", SnippetLength)
                        \o <<" ">> \o W_sentence] >>

DocIds == DOMAIN Catalogue

\* schema: KEYWORD(commas=True) fields and TEXT(StemmingAnalyzer) fields
KeywordFields == {"product", "category", "subcategory"}
TextFields == {"topic", "content"}

RECURSIVE RunsFrom(_, _, _)
\* the maximal runs of characters of s, from position i, that are not in seps
RunsFrom(s, i, seps) ==
    IF \A k \in i..Len(s) : s[k] \in seps THEN <<>>
    ELSE LET a == CHOOSE k \in i..Len(s) : s[k] \notin seps /\ \A m \in i..(k - 1) : s[m] \in seps
             b == IF \E k \in a..Len(s) : s[k] \in seps
                  THEN (CHOOSE k \in a..Len(s) :
                           s[k] \in seps /\ \A m \in a..(k - 1) : s[m] \notin seps) - 1
                  ELSE Len(s)
         IN  <<SubSeq(s, a, b)>> \o RunsFrom(s, b + 1, seps)

\* KEYWORD(commas=True): split at commas, each token stripped, case kept
KeywordTokens(v) ==
    LET runs == RunsFrom(v, 1, {","})
    IN  {Strip(runs[k]) : k \in DOMAIN runs}

\* the stop words of StemmingAnalyzer that the model's texts use
StopWords == {<<"i","s">>, <<"f","o","r">>, <<"t","h","e">>}

\* StopFilter(minsize=2)
MinTokenSize == 2

\* the characters of the model's texts that are not word characters
NonWordChars == WhiteSpace \cup {"-", ",", "."}

\* TEXT(StemmingAnalyzer): runs of word characters, lowercased, stop words
\* and one-letter tokens dropped (the stemmer maps none of the model's words
\* to another of them, so it is left out)
TextTokens(v) ==
    LET runs == RunsFrom(Lower(v), 1, NonWordChars)
    IN  {runs[k] : k \in {j \in DOMAIN runs :
                              Len(runs[j]) >= MinTokenSize /\ runs[j] \notin StopWords}}

\* writer.add_document: the terms indexed for each field of each entry
IndexedTerms ==
    [d \in DocIds |->
        [f \in KeywordFields \cup TextFields |->
            IF f \in KeywordFields
            THEN KeywordTokens(Catalogue[d][f])
            ELSE TextTokens(Catalogue[d][f])]]

\* the Term / And query the parser builds for one word in one field matches
\* the entry d
TermIn(d, field, word) ==
    LET terms == IF field \in KeywordFields THEN KeywordTokens(word) ELSE TextTokens(word)
    IN  terms # {} /\ terms \subseteq IndexedTerms[d][field]

\* the parsed query (And of the words, each an Or over the fields) matches
QueryMatches(d, words, fields) ==
    /\ words # <<>>
    /\ \A k \in DOMAIN words : \E f \in fields : TermIn(d, f, words[k])

RECURSIVE SumOver(_, _)
SumOver(f, S) ==
    IF S = {} THEN 0 ELSE LET x == CHOOSE y \in S : TRUE IN f[x] + SumOver(f, S \ {x})

\* the relevance score of a matching entry: the number of (word, field)
\* terms it matches stands for the BM25F sum over those terms
Score(d, words, fields) ==
    SumOver([k \in DOMAIN words |-> Cardinality({f \in fields : TermIn(d, f, words[k])})],
            DOMAIN words)

RECURSIVE TopHits_unlimited(_, _, _)
\* searcher.search handing back every hit, whatever the limit
TopHits_unlimited(hits, score, limit) ==
    IF hits = {} THEN <<>>
    ELSE LET best == CHOOSE p \in hits :
                         \A q \in hits : score[p] > score[q] \/ (score[p] = score[q] /\ p <= q)
         IN  <<best>> \o TopHits_unlimited(hits \ {best}, score, limit)

RECURSIVE TopHits_byDocnum(_, _, _)
\* searcher.search handing the hits back in document order
TopHits_byDocnum(hits, score, limit) ==
    IF hits = {} \/ limit = 0 THEN <<>>
    ELSE LET first == CHOOSE p \in hits : \A q \in hits : p <= q
         IN  <<first>> \o TopHits_byDocnum(hits \ {first}, score, limit - 1)

RECURSIVE TopHits(_, _, _)
\* searcher.search(query, limit): the document numbers in `hits` by falling
\* score, equal scores by rising document number, at most `limit` of them
TopHits(hits, score, limit) ==
    IF hits = {} \/ limit = 0 THEN <<>>
    ELSE LET best == CHOOSE p \in hits :
                         \A q \in hits : score[p] > score[q] \/ (score[p] = score[q] /\ p <= q)
         IN  <<best>> \o TopHits(hits \ {best}, score, limit - 1)

SearchFields == {"product", "topic", "content", "category", "subcategory"}

----------------------------------------------------------------------------
(* KnowledgeSearch: create_index, load_index, search, get_by_product        *)

\* index.open_dir creating the index anew instead of opening it
open_dir_creating(entries) == <<>>

\* index.open_dir: the entries on disk once the index was opened
open_dir(entries) == entries

\* create_index: the entries on disk after the commit
create_index(d, old, documents) ==
    IF d = "index"
    THEN old \o documents      \* index.open_dir, writer.add_document, commit
    ELSE documents             \* index.create_in (directory made, or open_dir failed)

\* load_index assigning self.ix before it knows that open_dir worked
load_index_eager(d, handle) == [ix |-> "Loaded", ret |-> d = "index"]

\* load_index opening the index but reporting failure
load_index_silent(d, handle) ==
    [ix |-> IF d = "index" THEN "Loaded" ELSE handle, ret |-> FALSE]

\* load_index: the handle afterwards and the value returned
load_index(d, handle) ==
    IF d = "index"
    THEN [ix |-> "Loaded", ret |-> TRUE]
    ELSE [ix |-> handle, ret |-> FALSE]

\* the queries of the chat and search endpoints
RawQueries ==
    {<<"f"," ","5","0","0"," ","l","i","t","h","i","u","m">>,
     <<"F","5","0","0">>,
     <<"h","y","d","r","o"," ","l","o","c","k">>,
     <<"v","a","p","o","r">>,
     <<"f","o","a","m">>}

ProductNames == {<<"f","5","0","0">>, <<"F","5","0","0">>, <<"h","y","d","r","o","l","o","c","k">>}

\* what search() computes from the query alone, and per entry of the
\* catalogue, for each query the endpoints send: the normalized query, the
\* entries its parsed form matches, their scores and their snippets
QueryPlan ==
    [q \in RawQueries |->
        LET normalized_query == normalize_query(q)
            words == Split(normalized_query)
        IN  [normalized |-> normalized_query,
             matches |-> {d \in DocIds : QueryMatches(d, words, SearchFields)},
             score |-> [d \in DocIds |-> Score(d, words, SearchFields)],
             snippet |-> [d \in DocIds |->
                             get_snippet(Catalogue[d].content, normalized_query,
                                         SnippetLength)]]]

\* lines 135-152: one result per hit, in the order of the hits
ResultList(entries, plan, top) ==
    [i \in DOMAIN top |->
        [rank |-> i,
         score |-> plan.score[entries[top[i]]],
         filename |-> Catalogue[entries[top[i]]].filename,
         product |-> Catalogue[entries[top[i]]].product,
         snippet |-> plan.snippet[entries[top[i]]]]]

\* line 131: the positions of the hits searcher.search hands back
Hits(entries, plan, max_results) ==
    TopHits({p \in DOMAIN entries : entries[p] \in plan.matches},
            [p \in DOMAIN entries |-> plan.score[entries[p]]],
            max_results)

\* the result list search() builds
SearchResults(entries, query_text, max_results) ==
    ResultList(entries, QueryPlan[query_text],
               Hits(entries, QueryPlan[query_text], max_results))

ProductLimit == 10

\* what get_by_product computes per entry of the catalogue for each product
\* name asked for: the entries the parsed name matches, and their scores
ProductPlan ==
    [name \in ProductNames |->
        LET words == Split(Lower(name))
        IN  [matches |-> {d \in DocIds : QueryMatches(d, words, {"product"})},
             score |-> [d \in DocIds |-> Score(d, words, {"product"})]]]

\* lines 206-213: one result per hit
ProductList(entries, top) ==
    [i \in DOMAIN top |->
        [filename |-> Catalogue[entries[top[i]]].filename,
         content |-> Catalogue[entries[top[i]]].content]]

\* the result list get_by_product builds
ProductResults(entries, product_name, max_results) ==
    ProductList(entries, Hits(entries, ProductPlan[product_name], max_results))

MaxStored == 3
MaxBatch == 2
MaxResults == 2

RECURSIVE SeqsOf(_, _)
\* the sequences of exactly n elements of S
SeqsOf(S, n) ==
    IF n = 0 THEN {<<>>} ELSE {Append(q, x) : q \in SeqsOf(S, n - 1), x \in S}

\* what a scan hands to create_index: one to MaxBatch documents
Batches == UNION {SeqsOf(DocIds, n) : n \in 1..MaxBatch}

\* how a create_index call can end: normally; with os.makedirs or
\* index.create_in raising; with writer(), add_document or commit raising
BuildFaults == {"none", "open", "write"}

\* loads: whether the call ran load_index ("no"), and how that ended
NoCall ==
    [op |-> "none", arg |-> <<>>, raised |-> FALSE, ret |-> FALSE, loads |-> "no",
     results |-> <<>>]

IndexStart ==
    /\ \/ dir = "absent" /\ stored = <<>>
       \/ dir = "unreadable" /\ stored = <<>>
       \/ dir = "index" /\ stored \in {<<>>} \cup SeqsOf(DocIds, 1)
    /\ ix = "None"
    /\ last = NoCall
    /\ built = <<>>

CreateIndex(documents, fault) ==
    /\ Len(stored) + Len(documents) <= MaxStored
    /\ CASE fault = "none" ->
               /\ stored' = create_index(dir, stored, documents)
               /\ dir' = "index"
               /\ ix' = "Loaded"
               /\ last' = [NoCall EXCEPT !.op = "create_index", !.arg = documents]
               /\ built' = documents
         [] fault = "open" ->
               \* nothing was opened or created: self.ix was not assigned
               /\ dir # "index"
               /\ UNCHANGED <<dir, stored, ix, built>>
               /\ last' = [NoCall EXCEPT !.op = "create_index", !.arg = documents,
                                         !.raised = TRUE]
         [] fault = "write" ->
               \* self.ix was assigned (lines 38, 43, 46); nothing was committed
               /\ stored' = create_index(dir, stored, <<>>)
               /\ dir' = "index"
               /\ ix' = "Loaded"
               /\ last' = [NoCall EXCEPT !.op = "create_index", !.arg = documents,
                                         !.raised = TRUE]
               /\ UNCHANGED built

LoadIndex ==
    LET r == load_index(dir, ix)
    IN  /\ ix' = r.ix
        /\ stored' = IF dir = "index" THEN open_dir(stored) ELSE stored
        /\ last' = [NoCall EXCEPT !.op = "load_index", !.ret = r.ret,
                                  !.loads = IF r.ret THEN "ok" ELSE "failed"]
        /\ UNCHANGED <<dir, built>>

\* `if not self.ix: if not self.load_index(): return []` at the head of
\* search and get_by_product: the handle, whether to go on, what was loaded
EnsureLoaded(d, handle, entries) ==
    IF handle = "None"
    THEN LET r == load_index(d, handle)
         IN  [ix |-> r.ix, ret |-> r.ret,
              loads |-> IF r.ret THEN "ok" ELSE "failed",
              entries |-> IF d = "index" THEN open_dir(entries) ELSE entries]
    ELSE [ix |-> handle, ret |-> TRUE, loads |-> "no", entries |-> entries]

Search(query_text, max_results) ==
    LET r == EnsureLoaded(dir, ix, stored)
        call == [NoCall EXCEPT !.op = "search", !.arg = <<query_text, max_results>>,
                              !.loads = r.loads]
    IN  /\ ix' = r.ix
        /\ stored' = r.entries
        /\ UNCHANGED <<dir, built>>
        /\ IF ~r.ret
           THEN last' = call                                    \* return []
           ELSE IF dir # "index" \/ max_results < 1
           THEN last' = [call EXCEPT !.raised = TRUE]           \* ix.searcher() / searcher.search raise
           ELSE last' = [call EXCEPT !.results = SearchResults(r.entries, query_text, max_results)]

GetByProduct(product_name) ==
    LET r == EnsureLoaded(dir, ix, stored)
        call == [NoCall EXCEPT !.op = "get_by_product", !.arg = product_name,
                              !.loads = r.loads]
    IN  /\ ix' = r.ix
        /\ stored' = r.entries
        /\ UNCHANGED <<dir, built>>
        /\ IF ~r.ret
           THEN last' = call
           ELSE IF dir # "index"
           THEN last' = [call EXCEPT !.raised = TRUE]
           ELSE last' = [call EXCEPT !.results = ProductResults(r.entries, product_name, ProductLimit)]

\* the index directory is removed under the running process
RemoveIndexDir ==
    /\ dir = "index"
    /\ dir' = "absent"
    /\ stored' = <<>>
    /\ last' = NoCall
    /\ built' = <<>>
    /\ UNCHANGED ix

----------------------------------------------------------------------------
(* server.py: /chat/stream, chat() and its generator generate()             *)

MaxRequests == 2
MaxChunks == 1

Requests == 1..MaxRequests
SessionIds == {"default", "s2"}

\* sessions[session_id][-4:] and sessions[session_id][-2:]
HistoryKeep == 4
PromptKeep == 2

\* h[-n:]
LastN(h, n) == SubSeq(h, Max(1, Len(h) - n + 1), Len(h))

\* a message dict; req tells which request wrote it (0, -1: before this run)
Message(role, r, text) == [role |-> role, req |-> r, content |-> text]

\* the delta.content values of the chunks of a stream: the first chunk
\* carries the role and no content, the others a piece of the reply
StreamChunks == <<"">> \o [k \in 1..MaxChunks |-> "ok"]

\* the messages list of lines 167-171
PromptMessages(history, r) ==
    <<Message("system", r, <<>>)>> \o LastN(history, PromptKeep)
        \o <<Message("user", r, <<>>)>>

\* line 194 keeping everything
Truncate_none(history) == history

\* line 194: sessions[session_id][-4:]
Truncate(history) == LastN(history, HistoryKeep)

\* the except branch sending the end marker after the error
ErrorEvents_done == <<"error", "[DONE]">>

\* what the except branch of generate() sends (lines 198-200)
ErrorEvents == <<"error">>

EmptyDict == [s \in {} |-> <<>>]

\* two exchanges completed before this run
EarlierHistory ==
    <<Message("user", -1, <<>>), Message("assistant", -1, <<"ok">>),
      Message("user", 0, <<>>), Message("assistant", 0, <<"ok">>)>>

IdleReq ==
    [pc |-> "idle", session_id |-> "", messages |-> <<>>, full |-> <<>>, chunks |-> 0,
     sliced |-> <<>>, events |-> <<>>, appended |-> <<>>]

ChatStart ==
    /\ sessions \in {EmptyDict, "default" :> <<>>, "default" :> EarlierHistory}
    /\ reqs = [r \in Requests |-> IdleReq]

\* dict item assignment
SetItem(dict, key, value) ==
    [k \in DOMAIN dict \cup {key} |-> IF k = key THEN value ELSE dict[k]]

\* lines 97-99: the request arrives
Receive(r, session_id) ==
    /\ reqs[r].pc = "idle"
    /\ reqs' = [reqs EXCEPT ![r].pc = "check", ![r].session_id = session_id]
    /\ UNCHANGED sessions

\* line 103: if session_id not in sessions
CheckSession(r) ==
    /\ reqs[r].pc = "check"
    /\ reqs' = [reqs EXCEPT ![r].pc =
                    IF reqs[r].session_id \notin DOMAIN sessions THEN "create" ELSE "build"]
    /\ UNCHANGED sessions

\* line 104: sessions[session_id] = []
CreateSession(r) ==
    /\ reqs[r].pc = "create"
    /\ sessions' = SetItem(sessions, reqs[r].session_id, <<>>)
    /\ reqs' = [reqs EXCEPT ![r].pc = "build"]

\* lines 167-171: the prompt, with the last stored messages
BuildMessages(r) ==
    /\ reqs[r].pc = "build"
    /\ reqs' = [reqs EXCEPT ![r].pc = "stream",
                            ![r].messages = PromptMessages(sessions[reqs[r].session_id], r)]
    /\ UNCHANGED sessions

\* lines 184-188: the next chunk of the stream; an empty delta is skipped
StreamChunk(r) ==
    LET text == StreamChunks[reqs[r].chunks + 1]
    IN  /\ reqs[r].pc = "stream"
        /\ reqs[r].chunks < Len(StreamChunks)
        /\ reqs' = [reqs EXCEPT
                        ![r].chunks = @ + 1,
                        ![r].full = IF text # "" THEN Append(@, text) ELSE @,
                        ![r].events = IF text # "" THEN Append(@, "content") ELSE @]
        /\ UNCHANGED sessions

\* the stream is exhausted: the for loop is left (the prompt is not used again)
StreamEnd(r) ==
    /\ reqs[r].pc = "stream"
    /\ reqs[r].chunks = Len(StreamChunks)
    /\ reqs' = [reqs EXCEPT ![r].pc = "append_user", ![r].messages = <<>>]
    /\ UNCHANGED sessions

\* line 175 or the iteration of line 184 raises; lines 198-200
StreamRaise(r) ==
    /\ reqs[r].pc = "stream"
    /\ reqs' = [reqs EXCEPT ![r].pc = "failed", ![r].messages = <<>>,
                            ![r].events = @ \o ErrorEvents]
    /\ UNCHANGED sessions

\* line 192
AppendUser(r) ==
    LET m == Message("user", r, <<>>)
        session_id == reqs[r].session_id
    IN  /\ reqs[r].pc = "append_user"
        /\ sessions' = [sessions EXCEPT ![session_id] = Append(@, m)]
        /\ reqs' = [reqs EXCEPT ![r].pc = "append_assistant", ![r].appended = Append(@, m)]

\* line 193
AppendAssistant(r) ==
    LET m == Message("assistant", r, reqs[r].full)
        session_id == reqs[r].session_id
    IN  /\ reqs[r].pc = "append_assistant"
        /\ sessions' = [sessions EXCEPT ![session_id] = Append(@, m)]
        /\ reqs' = [reqs EXCEPT ![r].pc = "slice", ![r].appended = Append(@, m)]

\* line 194, right-hand side: the slice is taken
SliceHistory(r) ==
    /\ reqs[r].pc = "slice"
    /\ reqs' = [reqs EXCEPT ![r].pc = "store",
                            ![r].sliced = Truncate(sessions[reqs[r].session_id])]
    /\ UNCHANGED sessions

\* line 194, the assignment
StoreHistory(r) ==
    /\ reqs[r].pc = "store"
    /\ sessions' = SetItem(sessions, reqs[r].session_id, reqs[r].sliced)
    /\ reqs' = [reqs EXCEPT ![r].pc = "yield_done", ![r].sliced = <<>>]

\* line 196
YieldDone(r) ==
    /\ reqs[r].pc = "yield_done"
    /\ reqs' = [reqs EXCEPT ![r].pc = "done", ![r].events = Append(@, "[DONE]")]
    /\ UNCHANGED sessions

-----
(* Specifications                                                           *)

normVars == <<nq, nwords, npc, normalized>>
snipVars == <<content, squery, slength, spc, srun>>
indexVars == <<dir, stored, ix, last, built>>
chatVars == <<sessions, reqs>>
vars == <<normVars, snipVars, indexVars, chatVars>>

NormIdle ==
    /\ nq = <<>>
    /\ nwords = 0
    /\ npc = "idle"
    /\ normalized = <<>>

SnipIdle ==
    /\ content = <<>>
    /\ squery = <<>>
    /\ slength = 0
    /\ spc = "idle"
    /\ srun = NoRun

IndexIdle ==
    /\ dir = "absent"
    /\ stored = <<>>
    /\ ix = "None"
    /\ last = NoCall
    /\ built = <<>>

ChatIdle ==
    /\ sessions = EmptyDict
    /\ reqs = [r \in Requests |-> IdleReq]

NormInit == NormStart /\ SnipIdle /\ IndexIdle /\ ChatIdle

NormNext ==
    \/ \E sep \in Separators, w \in Vocabulary :
           TypeWord(sep, w) /\ UNCHANGED <<snipVars, indexVars, chatVars>>
    \/ Capitalise /\ UNCHANGED <<snipVars, indexVars, chatVars>>
    \/ WidenGaps /\ UNCHANGED <<snipVars, indexVars, chatVars>>
    \/ NormalizeQuery /\ UNCHANGED <<snipVars, indexVars, chatVars>>

\* calls of normalize_query
SpecNormalize == NormInit /\ [][NormNext]_vars

SnipInit == SnipStart /\ NormIdle /\ IndexIdle /\ ChatIdle

SnipNext == GetSnippet /\ UNCHANGED <<normVars, indexVars, chatVars>>

\* calls of get_snippet
SpecSnippet == SnipInit /\ [][SnipNext]_vars

Init == IndexStart /\ NormIdle /\ SnipIdle /\ ChatIdle

Next ==
    \/ \E documents \in Batches, fault \in BuildFaults :
           CreateIndex(documents, fault) /\ UNCHANGED <<normVars, snipVars, chatVars>>
    \/ LoadIndex /\ UNCHANGED <<normVars, snipVars, chatVars>>
    \/ \E q \in RawQueries, k \in 0..MaxResults :
           Search(q, k) /\ UNCHANGED <<normVars, snipVars, chatVars>>
    \/ \E name \in ProductNames : GetByProduct(name) /\ UNCHANGED <<normVars, snipVars, chatVars>>
    \/ RemoveIndexDir /\ UNCHANGED <<normVars, snipVars, chatVars>>

\* one server process: calls on its KnowledgeSearch object, and the index directory
Spec == Init /\ [][Next]_vars

ChatInit == ChatStart /\ NormIdle /\ SnipIdle /\ IndexIdle

ChatNext ==
    \/ \E r \in Requests, session_id \in SessionIds :
           Receive(r, session_id) /\ UNCHANGED <<normVars, snipVars, indexVars>>
    \/ \E r \in Requests : CheckSession(r) /\ UNCHANGED <<normVars, snipVars, indexVars>>
    \/ \E r \in Requests : CreateSession(r) /\ UNCHANGED <<normVars, snipVars, indexVars>>
    \/ \E r \in Requests : BuildMessages(r) /\ UNCHANGED <<normVars, snipVars, indexVars>>
    \/ \E r \in Requests : StreamChunk(r) /\ UNCHANGED <<normVars, snipVars, indexVars>>
    \/ \E r \in Requests : StreamEnd(r) /\ UNCHANGED <<normVars, snipVars, indexVars>>
    \/ \E r \in Requests : StreamRaise(r) /\ UNCHANGED <<normVars, snipVars, indexVars>>
    \/ \E r \in Requests : AppendUser(r) /\ UNCHANGED <<normVars, snipVars, indexVars>>
    \/ \E r \in Requests : AppendAssistant(r) /\ UNCHANGED <<normVars, snipVars, indexVars>>
    \/ \E r \in Requests : SliceHistory(r) /\ UNCHANGED <<normVars, snipVars, indexVars>>
    \/ \E r \in Requests : StoreHistory(r) /\ UNCHANGED <<normVars, snipVars, indexVars>>
    \/ \E r \in Requests : YieldDone(r) /\ UNCHANGED <<normVars, snipVars, indexVars>>

\* the threaded server: /chat/stream requests, one thread each, a step per
\* statement on the shared sessions dict
SpecChat == ChatInit /\ [][ChatNext]_vars

-----
(* Claims about normalize_query, under SpecNormalize                        *)

\* C2 as claimed: normalising a normalised query changes nothing.
C2_Idempotent == npc = "done" => normalize_query(normalized) = normalized

\* C2 as amended: a second normalisation changes the result exactly when the
\* first result still holds a whole-word 'pinnacle' + optional whitespace +
\* 'foam' (the rule that drops 'foam' exposes a following 'foam').
C2_IdempotentUnlessPinnacleFoam ==
    npc = "done" =>
        (normalize_query(normalized) = normalized
            <=> ~ReSearch(W_pinnacle, W_foam, normalized))

\* a query that normalisation rewrote, and whose result is a fixed point
C2_Witness ==
    /\ npc = "done"
    /\ normalized # Lower(nq)
    /\ ~ReSearch(W_pinnacle, W_foam, normalized)
    /\ normalize_query(normalized) = normalized

\* The rewrite rules as the claim lists them: pattern words and replacement.
ClaimedRules ==
    << <<W_f, W_500, W_f_500>>,
       <<W_f500, <<>>, W_f_500>>,
       <<W_hydro, W_lock, W_hydrolock>>,
       <<W_pinnacle, W_foam, W_pinnacle>>,
       <<W_dust, W_wash, W_dust_wash>> >>

RECURSIVE ApplyRules(_, _, _)
\* rules k, k+1, ... applied in order, each to the output of the one before
ApplyRules(rules, k, s) ==
    IF k > Len(rules) THEN s
    ELSE ApplyRules(rules, k + 1, ReSub(rules[k][1], rules[k][2], rules[k][3], s))

W_F500_SPRAY == <<"F","5","0","0"," ","S","P","R","A","Y">>
W_f_500_spray == W_f_500 \o <<" ">> \o W_spray
W_pinnacle_foam_spray == W_pinnacle \o <<" ">> \o W_foam \o <<" ">> \o W_spray
W_pinnacle_spray == W_pinnacle \o <<" ">> \o W_spray

\* C3: the result is the lowercased query rewritten by the five rules in
\* their order; a query no rule matches is only lowercased; the examples
\* 'F500 SPRAY' -> 'f-500 spray' and 'pinnacle foam spray' -> 'pinnacle spray'.
C3_RulesInOrder ==
    npc = "done" =>
        /\ normalized = ApplyRules(ClaimedRules, 1, Lower(nq))
        /\ (\A k \in DOMAIN ClaimedRules :
                ~ReSearch(ClaimedRules[k][1], ClaimedRules[k][2], Lower(nq)))
            => normalized = Lower(nq)
        /\ nq = W_F500_SPRAY => normalized = W_f_500_spray
        /\ nq = W_pinnacle_foam_spray => normalized = W_pinnacle_spray

\* a capitalised query that a rule rewrote
C3_Witness ==
    /\ npc = "done"
    /\ nq = W_F500_SPRAY
    /\ normalized = W_f_500_spray

----------------------------------------------------------------------------
(* Claims about get_snippet, under SpecSnippet                              *)

StartsWith(s, p) == Len(s) >= Len(p) /\ SubSeq(s, 1, Len(p)) = p
EndsWith(s, p) == Len(s) >= Len(p) /\ SubSeq(s, Len(s) - Len(p) + 1, Len(s)) = p

\* the 0-based positions at which some term of the query occurs in the
\* content, compared in lower case
Occurrences(c, query) ==
    LET terms == Split(Lower(query))
        cl == Lower(c)
    IN  {i - 1 : i \in {j \in 1..Len(cl) : \E k \in DOMAIN terms : HasAt(cl, j, terms[k])}}

SetMin(S) == CHOOSE x \in S : \A y \in S : x <= y

\* C7 as claimed: the snippet starts with "..." iff the slice it was cut from
\* starts after position 0, and ends with "..." iff that slice ends before
\* the end of the content, in the match case and in the fallback case.
C7_MarkersIffEverywhere ==
    spc = "done" =>
        /\ StartsWith(srun.result, Ellipsis) <=> srun.from > 0
        /\ EndsWith(srun.result, Ellipsis) <=> srun.to < Len(content)

\* C7 as amended: the two equivalences hold when a term matched; the
\* fallback snippet carries no marker, however long the content.
C7_MarkersIffWhenMatched ==
    spc = "done" =>
        IF srun.matched
        THEN /\ StartsWith(srun.result, Ellipsis) <=> srun.from > 0
             /\ EndsWith(srun.result, Ellipsis) <=> srun.to < Len(content)
        ELSE /\ ~StartsWith(srun.result, Ellipsis)
             /\ ~EndsWith(srun.result, Ellipsis)

\* a match in the middle of a long content: both markers
C7_Witness ==
    /\ spc = "done"
    /\ srun.matched
    /\ srun.from > 0
    /\ srun.to < Len(content)
    /\ StartsWith(srun.result, Ellipsis)
    /\ EndsWith(srun.result, Ellipsis)

\* C8: when some term occurs, pos is the smallest position of any occurrence
\* of any term, and the snippet is content[max(0, pos-100) : min(len, pos +
\* window)] trimmed, with "..." before iff the slice starts after 0 and
\* "..." after iff it ends before the end of the content.
C8_EarliestOfAllTerms ==
    (spc = "done" /\ Occurrences(content, squery) # {}) =>
        LET pos == SetMin(Occurrences(content, squery))
            a == Max(0, pos - Before)
            b == Min(Len(content), pos + slength)
        IN  /\ srun.matched
            /\ srun.earliest_pos = pos
            /\ srun.result =
                    (IF a > 0 THEN Ellipsis ELSE <<>>)
                        \o Strip(Slice(content, a, b))
                        \o (IF b < Len(content) THEN Ellipsis ELSE <<>>)

\* two terms, the second one occurring before the first, far from the start
C8_Witness ==
    /\ spc = "done"
    /\ srun.matched
    /\ srun.from > 0
    /\ LET terms == Split(Lower(squery))
       IN  /\ Len(terms) = 2
           /\ Find(Lower(content), terms[1]) > srun.earliest_pos
           /\ Find(Lower(content), terms[2]) = srun.earliest_pos

\* C9: when no term occurs (empty content and a query without terms
\* included), the snippet is the first `window` characters of the content,
\* trimmed, and no "..." is put before it.
C9_Fallback ==
    (spc = "done" /\ Occurrences(content, squery) = {}) =>
        /\ ~srun.matched
        /\ srun.result = Strip(SubSeq(content, 1, Min(slength, Len(content))))
        /\ ~srun.lead
        /\ ~StartsWith(srun.result, Ellipsis)

\* a query with a term, none occurring, in a content longer than the window
\* whose first window has whitespace to trim
C9_Witness ==
    /\ spc = "done"
    /\ Split(squery) # <<>>
    /\ Occurrences(content, squery) = {}
    /\ Len(content) > slength
    /\ srun.result # SubSeq(content, 1, slength)
    /\ srun.result # <<>>

\* the returned string without the markers get_snippet put around it
Unmarked(run) ==
    SubSeq(run.result,
           (IF run.lead THEN Len(Ellipsis) ELSE 0) + 1,
           Len(run.result) - (IF run.trail THEN Len(Ellipsis) ELSE 0))

IsSubstring(s, t) == \E i \in 1..(Len(t) - Len(s) + 1) : HasAt(t, i, s)

\* C10: the snippet without the markers get_snippet added is a contiguous
\* substring of the content.
C10_Containment ==
    spc = "done" => IsSubstring(Unmarked(srun), content)

\* a marked snippet around a mention written in capitals
C10_Witness ==
    /\ spc = "done"
    /\ srun.lead
    /\ srun.trail
    /\ Unmarked(srun) # Lower(Unmarked(srun))

----------------------------------------------------------------------------
(* Claims about the index and its handle, under Spec                        *)

\* C1: after create_index(B) the index holds exactly the entries of B (and
\* so |B| documents), whatever the index location held before.
C1_BuildReplaces ==
    (last.op = "create_index" /\ ~last.raised) => stored = last.arg

\* how many times x occurs in the sequence s
Count(s, x) == Cardinality({i \in DOMAIN s : s[i] = x})

\* C4: get_by_product(name) returns exactly the indexed entries whose product
\* equals name when letter case is ignored (each as often as it is indexed).
C4_ProductIgnoringCase ==
    (last.op = "get_by_product" /\ ~last.raised) =>
        \A d \in DocIds :
            Count(last.results, [filename |-> Catalogue[d].filename,
                                 content |-> Catalogue[d].content]) =
                IF Lower(Catalogue[d].product) = Lower(last.arg)
                THEN Count(stored, d) ELSE 0

\* C5: no call of search() raises.
C5_SearchNeverRaises ==
    last.op = "search" => ~last.raised

\* C6: a search on an unloaded handle, with no index to load at the index
\* location (absent, or not openable), returns the empty list, raises
\* nothing and leaves the handle unloaded.
C6_EmptyWithoutIndex ==
    [][(ix = "None" /\ dir # "index" /\ last'.op = "search") =>
          (last'.results = <<>> /\ ~last'.raised /\ ix' = "None")]_vars

\* a search has just returned on an unloaded handle whose index location
\* holds a directory that is no index
C6_Witness ==
    /\ last.op = "search"
    /\ ix = "None"
    /\ dir = "unreadable"
    /\ last.results = <<>>

\* the positions of the indexed entries that match the query of a search
Matching(entries, query_text) ==
    {p \in DOMAIN entries : entries[p] \in QueryPlan[query_text].matches}

\* C11: search(q, k) with k >= 1 returns at most k results.
C11_AtMostK ==
    (last.op = "search" /\ ~last.raised /\ last.arg[2] >= 1) =>
        Len(last.results) <= last.arg[2]

\* a search returned k results although more than k indexed entries match
C11_Witness ==
    /\ last.op = "search"
    /\ ~last.raised
    /\ last.arg[2] >= 1
    /\ Len(last.results) = last.arg[2]
    /\ Cardinality(Matching(stored, last.arg[1])) > last.arg[2]

\* C12: in a result list of search the scores never rise from one position
\* to the next, and the rank of the result at position i is i.
C12_RankOrder ==
    last.op = "search" =>
        \A i \in DOMAIN last.results :
            /\ last.results[i].rank = i
            /\ i < Len(last.results) =>
                   last.results[i].score >= last.results[i + 1].score

\* two results of different score, the better one indexed after the other
C12_Witness ==
    /\ last.op = "search"
    /\ Len(last.results) >= 2
    /\ last.results[1].score > last.results[2].score
    /\ Len(stored) >= 2
    /\ Catalogue[stored[1]].filename = last.results[2].filename
    /\ Catalogue[stored[2]].filename = last.results[1].filename

\* C13: the handle starts unloaded; it becomes loaded only in a create_index
\* call that succeeds or a load_index that succeeds; once loaded it is never
\* unloaded again, whatever is called and however the call ends.
C13_Lifecycle ==
    /\ ix = "None"
    /\ [][/\ (ix = "None" /\ ix' = "Loaded") =>
                 \/ last'.op = "create_index" /\ ~last'.raised
                 \/ last'.loads = "ok"
          /\ ix = "Loaded" => ix' = "Loaded"]_vars

\* what a call of search or get_by_product returns from the entries on disk
Answer(call, entries) ==
    IF call.op = "search"
    THEN SearchResults(entries, call.arg[1], call.arg[2])
    ELSE ProductResults(entries, call.arg, ProductLimit)

\* C14: search or get_by_product on an unloaded handle, with an index at the
\* index location, loads that index first, leaves the handle loaded and
\* answers from the persisted entries; on a loaded handle it does not load.
C14_LoadBeforeAnswering ==
    [][last'.op \in {"search", "get_by_product"} =>
          /\ (ix = "None" /\ dir = "index") =>
                 /\ last'.loads = "ok"
                 /\ ix' = "Loaded"
                 /\ ~last'.raised => last'.results = Answer(last', stored)
          /\ ix = "Loaded" =>
                 /\ last'.loads = "no"
                 /\ ix' = "Loaded"]_vars

\* a search that loaded the persisted index and answered from it
C14_Witness ==
    /\ last.op = "search"
    /\ last.loads = "ok"
    /\ ix = "Loaded"
    /\ last.results # <<>>
    /\ built = <<>>

\* C15: a call of search or get_by_product changes neither the indexed
\* entries nor the index location.
C15_ReadOnly ==
    [][last'.op \in {"search", "get_by_product"} =>
          (stored' = stored /\ dir' = dir)]_vars

\* get_by_product answered from an index of several entries, all still there
C15_Witness ==
    /\ last.op = "get_by_product"
    /\ last.results # <<>>
    /\ Len(stored) >= 2

\* the query of the round trip
W_f_500_lithium == <<"f"," ","5","0","0"," ","l","i","t","h","i","u","m">>

\* the entries of the round trip: that filename, product 'F500', a content
\* holding the sentence
RoundTripEntries ==
    {d \in DocIds :
        /\ Catalogue[d].filename = "B_F500_AM_Aviation.txt"
        /\ Catalogue[d].product = <<"F","5","0","0">>
        /\ IsSubstring(W_sentence, Catalogue[d].content)}

\* C16: after a build with the single entry, search('f 500 lithium') returns
\* exactly one result, of rank 1, whose snippet contains 'F-500'.
C16_RoundTrip ==
    (/\ Len(built) = 1
     /\ built[1] \in RoundTripEntries
     /\ last.op = "search"
     /\ ~last.raised
     /\ last.arg[1] = W_f_500_lithium
     /\ last.arg[2] >= 1) =>
        /\ Len(last.results) = 1
        /\ last.results[1].rank = 1
        /\ IsSubstring(W_F_500, last.results[1].snippet)

----------------------------------------------------------------------------
(* Claims about the chat history, under SpecChat                            *)

\* no request is inside lines 192-194
Settled == \A r \in Requests : reqs[r].pc \notin {"append_assistant", "slice", "store"}

\* every request is still to come, completed or failed
Quiet == \A r \in Requests : reqs[r].pc \in {"idle", "done", "failed"}

\* the history is a sequence of (user, assistant) pairs, each of one request
Paired(h) ==
    /\ Len(h) % 2 = 0
    /\ \A i \in 1..Len(h) :
           i % 2 = 1 => /\ h[i].role = "user"
                        /\ h[i + 1].role = "assistant"
                        /\ h[i + 1].req = h[i].req

\* the exchange of the completed request r stands in the history h
Holds(h, r) ==
    \E i \in 1..(Len(h) - 1) :
        h[i] = reqs[r].appended[1] /\ h[i + 1] = reqs[r].appended[2]

\* the history h is full of exchanges of other completed requests
PushedOut(h, r) ==
    /\ Len(h) = HistoryKeep
    /\ \A i \in 1..Len(h) :
           h[i].req \in Requests \ {r} /\ reqs[h[i].req].pc = "done"

\* C17: whenever no request is between its appends and its truncation, each
\* session's history is a sequence of adjacent (user, assistant) pairs of one
\* request each, and the exchange of every completed request is in it unless
\* later exchanges filled the history.
C17_PairedHistory ==
    Settled =>
        \A session_id \in DOMAIN sessions :
            /\ Paired(sessions[session_id])
            /\ \A r \in Requests :
                   (reqs[r].pc = "done" /\ reqs[r].session_id = session_id) =>
                       \/ Holds(sessions[session_id], r)
                       \/ PushedOut(sessions[session_id], r)

\* the messages of a prompt between the system prompt and the new message
Middle(messages) == SubSeq(messages, 2, Len(messages) - 1)

\* C18: once the requests have completed every session holds at most 4
\* messages, and the prompt of a request holds at most 2 stored messages
\* between the system prompt and the new user message.
C18_BoundedHistory ==
    /\ Quiet => \A session_id \in DOMAIN sessions :
                    Len(sessions[session_id]) <= HistoryKeep
    /\ \A r \in Requests :
           reqs[r].pc = "stream" =>
               LET messages == reqs[r].messages
               IN  /\ messages[1].role = "system"
                   /\ messages[Len(messages)] = Message("user", r, <<>>)
                   /\ Len(Middle(messages)) <= PromptKeep
                   /\ \A i \in DOMAIN Middle(messages) :
                          /\ Middle(messages)[i].role \in {"user", "assistant"}
                          /\ Middle(messages)[i].req # r

\* every request has completed in one session whose earlier exchanges were
\* all cut away
C18_Witness ==
    /\ \A r \in Requests : reqs[r].pc = "done" /\ reqs[r].session_id = "default"
    /\ Len(sessions["default"]) = HistoryKeep
    /\ \A i \in 1..HistoryKeep : sessions["default"][i].req \in Requests

\* the whole reply of a stream
FullReply == SelectSeq(StreamChunks, LAMBDA text : text # "")

\* C19: a request whose stream raised has sent an error event last and no
\* [DONE], and has stored nothing; a request that sent [DONE] had appended
\* its user message and the whole reply before.
C19_NothingStoredOnFailure ==
    \A r \in Requests :
        /\ reqs[r].pc = "failed" =>
               /\ reqs[r].events # <<>>
               /\ reqs[r].events[Len(reqs[r].events)] = "error"
               /\ \A i \in DOMAIN reqs[r].events : reqs[r].events[i] # "[DONE]"
               /\ reqs[r].appended = <<>>
               /\ \A session_id \in DOMAIN sessions :
                      \A i \in DOMAIN sessions[session_id] :
                          sessions[session_id][i].req # r
        /\ (\E i \in DOMAIN reqs[r].events : reqs[r].events[i] = "[DONE]") =>
               /\ reqs[r].events[Len(reqs[r].events)] = "[DONE]"
               /\ reqs[r].appended =
                      <<Message("user", r, <<>>), Message("assistant", r, FullReply)>>

\* a stream raised after a chunk was sent, in a session where another
\* request completed
C19_Witness ==
    \E r, other \in Requests :
        /\ reqs[r].pc = "failed"
        /\ reqs[r].events = <<"content", "error">>
        /\ reqs[other].pc = "done"
        /\ reqs[other].session_id = reqs[r].session_id
        /\ Holds(sessions[reqs[r].session_id], other)

====
